---- MODULE Spec2Model ----
(***************************************************************************)
(* The event-driven portfolio backtester of quant-pipeline:                *)
(*   backtesting/portfolio_backtester.py  PortfolioBacktester              *)
(*   backtesting/risk_manager.py          PortfolioRiskManager             *)
(*   execution/simulated_handler.py       SimulatedExecutionHandler        *)
(*   backtesting/events.py                OrderEvent, FillEvent            *)
(*   optimization/portfolio_optimizer.py  PortfolioOptimizer               *)
(*                                                                         *)
(* Money, prices and quantities are integers.  Target weights,             *)
(* max_trade_risk_pct and max_portfolio_drawdown_pct are integer           *)
(* percentages, slippage_pct is in 1/10000, and every product and quotient *)
(* of the code is computed exactly on them; binary floating point rounding *)
(* is not modelled.                                                        *)
(* A timestamp is the position of a date in the sorted master timeline.    *)
(* A Python Optional is a sequence of length 0 (None) or 1.  A dict, and   *)
(* the non-NaN cells of a table row, are functions on the keys present.    *)
(***************************************************************************)
EXTENDS Integers, Sequences, FiniteSets, TLC

\* Timeline dates per run.
MaxDays == 2

\* list(price_data.keys()): the processing order of the assets.
Tickers == <<"A", "B">>
TickerSet == {Tickers[i] : i \in DOMAIN Tickers}
\* The keys signals_data may have.
Sources == TickerSet \cup {"Portfolio"}
\* Close prices of the bars, all positive.
Prices == {100, 200}
\* Values of the 'signal' column.
SignalCodes == {0, 1, -1, 2}

\* The price bars one date can carry: ticker -> Close.  Both assets trade
\* (B always at 100), only A trades (B has no bar, or no bar yet), or no
\* asset trades.
BarChoices ==
  { [t \in TickerSet |-> IF t = "A" THEN p ELSE 100] : p \in Prices }
    \cup [{"A"} -> Prices] \cup [{} -> Prices]

\* The signal entries one date can carry: source -> signal.  No entry (a
\* pure mark-to-market date), an entry per asset, or a 'Portfolio' entry
\* next to entries of the assets.
SigChoices ==
  [{} -> SignalCodes] \cup [TickerSet -> {1, -1, 2}]
    \cup { [s \in Sources |->
             IF s = "Portfolio" THEN v ELSE IF s = "A" THEN 1 ELSE -1] :
           v \in SignalCodes }

\* Constructor arguments of the backtester, its risk manager and its
\* execution handler: no slippage and a risk cap of the whole equity;
\* slippage of 1%; a risk cap below the price of one share.
NoSlippage ==
  [initial_capital |-> 1000, max_trade_risk_pct |-> 100,
   max_portfolio_drawdown_pct |-> 20, slippage_pct |-> 0,
   commission_per_trade |-> 1]
Slippage ==
  [initial_capital |-> 1000, max_trade_risk_pct |-> 50,
   max_portfolio_drawdown_pct |-> 20, slippage_pct |-> 100,
   commission_per_trade |-> 1]
SmallCap ==
  [initial_capital |-> 1000, max_trade_risk_pct |-> 2,
   max_portfolio_drawdown_pct |-> 20, slippage_pct |-> 0,
   commission_per_trade |-> 1]

\* target_weights dicts (percent); a missing key reads as 0.
WeightChoices ==
  { [t \in TickerSet |-> 50],
    [t \in TickerSet |-> 100],
    [t \in {"A"} |-> 200] }

\* The constructor arguments and target_weights of the runs explored.
RunArgs ==
  ({NoSlippage, SmallCap} \X WeightChoices)
    \cup ({Slippage} \X {[t \in {"A"} |-> 200]})

VARIABLES
  cfg,             \* the constructor arguments in force
  pc,              \* "idle": between runs; "running": in run's loop; "done"
  trial,           \* number of runs started on the backtester bt
  price_data,      \* PortfolioOptimizer.price_data, by date: ticker -> Close
  target_weights,  \* run's target_weights argument
  current_prices,  \* as-of Close per ticker at the last processed date
  bt,              \* the caller's backtester, reused run after run
  fresh,           \* a backtester constructed for this run, same fills
  fresh2,          \* a backtester constructed for this run, own random draws
  rev,             \* a backtester constructed for this run, price_data keys reversed
  calls,           \* bt's assess_order / execute_order calls of the last date
  equities,        \* every portfolio_equity bt's risk manager was passed
  day_signals,     \* the signal entries of the last date: source -> signal
  solo,            \* a backtester run on price_data without the panel of B
  signals_data,    \* run's signals_data argument, by calendar date
  full_timeline,   \* run's full_timeline: the calendar dates it loops over
  returned_fill,   \* a FillEvent an execution handler returned (Optional)
  cost,            \* the total_cost read from returned_fill (Optional)
  backtester,      \* a single-asset Backtester object (Optional)
  twin,            \* a second Backtester on the same data, other signals
  universe_call,   \* a get_tickers call: its source and the web's answer
  tickers_returned,\* what the get_tickers call returned (Optional)
  analyzed,        \* a PortfolioBacktester asked for its metrics (Optional)
  metrics,         \* what get_performance_metrics returned (Optional)
  z_zones,         \* the zone of the z-score of the pair's spread, by bar
  final_signals    \* what PairsTradingStrategy.generate_signals returned

vars == <<cfg, pc, trial, price_data, target_weights, current_prices, bt,
          fresh, fresh2, rev, calls, equities, day_signals, solo,
          signals_data, full_timeline, returned_fill, cost, backtester, twin,
          universe_call, tickers_returned, analyzed, metrics, z_zones,
          final_signals>>

\* The state outside the portfolio backtester, and its value while no
\* object of these classes exists.
function_vars == <<backtester, twin, universe_call, tickers_returned,
                   analyzed, metrics, z_zones, final_signals>>
FunctionVarsIdle ==
  /\ backtester = <<>>
  /\ twin = <<>>
  /\ universe_call = <<>>
  /\ tickers_returned = <<>>
  /\ analyzed = <<>>
  /\ metrics = <<>>
  /\ z_zones = <<>>
  /\ final_signals = <<>>

-----------------------------------------------------------------------------
(* Helpers *)

\* Python int(a / b) for b > 0: truncation toward zero.
IntDiv(a, b) == IF a >= 0 THEN a \div b ELSE -((-a) \div b)

RECURSIVE SumOver(_, _)
SumOver(f, S) ==
  IF S = {} THEN 0
  ELSE LET x == CHOOSE y \in S : TRUE IN f[x] + SumOver(f, S \ {x})

\* dict.get(key, default)
Get(d, k, default) == IF k \in DOMAIN d THEN d[k] ELSE default

\* f with f[k] set to v, adding the key when absent
Put(f, k, v) == [x \in DOMAIN f \cup {k} |-> IF x = k THEN v ELSE f[x]]

Reverse(s) == [i \in 1..Len(s) |-> s[Len(s) + 1 - i]]

-----------------------------------------------------------------------------
(* events.py *)

OrderEvent(timestamp, symbol, order_type, quantity, direction) ==
  [timestamp |-> timestamp, symbol |-> symbol, order_type |-> order_type,
   quantity |-> quantity, direction |-> direction]

FillEvent(timestamp, symbol, direction, quantity, fill_price, commission) ==
  [timestamp |-> timestamp, symbol |-> symbol, direction |-> direction,
   quantity |-> quantity, fill_price |-> fill_price, commission |-> commission]

\* Variant: the commission is added whatever the direction.
total_cost_CommissionAdded(fill) ==
  (fill.quantity * fill.fill_price) + fill.commission

\* FillEvent.total_cost
total_cost(fill) ==
  IF fill.direction = "BUY"
  THEN (fill.quantity * fill.fill_price) + fill.commission
  ELSE (fill.quantity * fill.fill_price) - fill.commission

-----------------------------------------------------------------------------
(* simulated_handler.py *)

\* Variant: the draw ignores the configured slippage_pct (a fixed 1%).
SlippageDraws_Unconfigured(slippage_pct) == {-100, 100}

\* The values random.uniform(-slippage_pct, slippage_pct) is modelled to
\* draw: the two ends of the interval (one value, 0, when slippage_pct = 0).
SlippageDraws(slippage_pct) == {-slippage_pct, slippage_pct}

\* Variant: the commission is charged per share.
execute_order_CommissionPerShare(order, current_price, slippage, c) ==
  LET fill_price == current_price + (current_price * slippage) \div 10000
      commission == c.commission_per_trade * order.quantity
  IN FillEvent(order.timestamp, order.symbol, order.direction, order.quantity,
               fill_price, commission)

\* SimulatedExecutionHandler.execute_order, for the drawn slippage.
execute_order(order, current_price, slippage, c) ==
  LET fill_price == current_price + (current_price * slippage) \div 10000
      commission == c.commission_per_trade
  IN FillEvent(order.timestamp, order.symbol, order.direction, order.quantity,
               fill_price, commission)

-----------------------------------------------------------------------------
(* risk_manager.py *)

\* Variant: the mark follows the last equity instead of the highest.
UpdateHighWaterMark_Last(high_water_mark, portfolio_equity) ==
  portfolio_equity

\* step 1 of assess_order
UpdateHighWaterMark(high_water_mark, portfolio_equity) ==
  IF portfolio_equity > high_water_mark THEN portfolio_equity
  ELSE high_water_mark

\* Variant: the ceiling is read as a whole number of percent (20 for 0.20),
\* so the fraction drawdown never exceeds it.
DrawdownBreached_PercentUnits(high_water_mark, portfolio_equity, c) ==
  /\ high_water_mark > 0
  /\ (high_water_mark - portfolio_equity)
       > c.max_portfolio_drawdown_pct * high_water_mark

\* step 2: drawdown > max_portfolio_drawdown_pct, with
\* drawdown = (high_water_mark - portfolio_equity) / high_water_mark.
\* With high_water_mark = 0.0 the numpy quotient is +inf for negative
\* equity and nan for equity 0 (nan compares False).
DrawdownBreached(high_water_mark, portfolio_equity, c) ==
  IF high_water_mark = 0
  THEN portfolio_equity < 0
  ELSE (high_water_mark - portfolio_equity) * 100
         > c.max_portfolio_drawdown_pct * high_water_mark

\* Variant: the scaled quantity is rounded up instead of floored.
SizedQuantity_RoundUp(order, portfolio_equity, price, c) ==
  IF order.quantity * price * 100 > portfolio_equity * c.max_trade_risk_pct
  THEN IntDiv(portfolio_equity * c.max_trade_risk_pct, 100 * price) + 1
  ELSE order.quantity

\* step 3: the quantity after the max-risk-per-trade rule (0: rejected)
SizedQuantity(order, portfolio_equity, price, c) ==
  IF order.quantity * price * 100 > portfolio_equity * c.max_trade_risk_pct
  THEN IntDiv(portfolio_equity * c.max_trade_risk_pct, 100 * price)
  ELSE order.quantity

\* Variant: the max-risk-per-trade rule is applied to SELL orders too.
assess_order_CapsEveryOrder(order, portfolio_state, high_water_mark, c) ==
  LET portfolio_equity == portfolio_state.total
      hwm == UpdateHighWaterMark(high_water_mark, portfolio_equity)
      price == portfolio_state.price[order.symbol]
      proposed_trade_value == order.quantity * price
      new_quantity == SizedQuantity(order, portfolio_equity, price, c)
      result ==
        IF order.direction = "BUY" /\ DrawdownBreached(hwm, portfolio_equity, c)
        THEN <<>>
        ELSE IF /\ proposed_trade_value * 100
                     > portfolio_equity * c.max_trade_risk_pct
                /\ new_quantity = 0
        THEN <<>>
        ELSE <<[order EXCEPT !.quantity = new_quantity]>>
  IN [high_water_mark |-> hwm, result |-> result]

\* PortfolioRiskManager.assess_order: the new high_water_mark and the
\* returned order (<<>> for None).
assess_order(order, portfolio_state, high_water_mark, c) ==
  LET portfolio_equity == portfolio_state.total
      hwm == UpdateHighWaterMark(high_water_mark, portfolio_equity)
      price == portfolio_state.price[order.symbol]
      proposed_trade_value == order.quantity * price
      new_quantity == SizedQuantity(order, portfolio_equity, price, c)
      result ==
        IF order.direction = "BUY"
        THEN IF DrawdownBreached(hwm, portfolio_equity, c) THEN <<>>
             ELSE IF /\ proposed_trade_value * 100
                          > portfolio_equity * c.max_trade_risk_pct
                     /\ new_quantity = 0
             THEN <<>>
             ELSE <<[order EXCEPT !.quantity = new_quantity]>>
        ELSE <<order>>
  IN [high_water_mark |-> hwm, result |-> result]

-----------------------------------------------------------------------------
(* portfolio_backtester.py *)

\* PortfolioBacktester.__init__ (with a new risk manager: high_water_mark 0.0)
NewBacktester ==
  [portfolio |-> <<>>, trade_log |-> <<>>, high_water_mark |-> 0]

\* run, step 2: a row as the table is initialised
InitialRow(c) ==
  [cash |-> c.initial_capital, holdings_value |-> 0,
   total |-> c.initial_capital,
   pos |-> [t \in TickerSet |-> 0],
   price |-> [t \in {} |-> 0]]

\* Variant: the row of a date starts as the table was initialised.
CarryForward_Reset(portfolio, c) == InitialRow(c)

\* run, lines 72-74: the row of a date starts as a copy of the previous row
CarryForward(portfolio, c) ==
  IF portfolio = <<>> THEN InitialRow(c) ELSE portfolio[Len(portfolio)]

\* run, lines 79-88 with asof_loc as the code documents it: the Close of the
\* ticker's last bar at or before the date; no entry when there is none.
AsOfPrices(prev_prices, bars) ==
  [t \in DOMAIN prev_prices \cup DOMAIN bars |->
     IF t \in DOMAIN bars THEN bars[t] ELSE prev_prices[t]]

\* Variant: total is the value of the holdings, without the cash.
MarkToMarket_HoldingsOnly(row, prices) ==
  LET value == [t \in DOMAIN prices |-> row.pos[t] * prices[t]]
      current_holdings_value == SumOver(value, DOMAIN prices)
  IN [row EXCEPT !.holdings_value = current_holdings_value,
                 !.total = current_holdings_value]

\* run, lines 76-93: holdings_value and total from the as-of prices
MarkToMarket(row, prices) ==
  LET value == [t \in DOMAIN prices |-> row.pos[t] * prices[t]]
      current_holdings_value == SumOver(value, DOMAIN prices)
  IN [row EXCEPT !.holdings_value = current_holdings_value,
                 !.total = row.cash + current_holdings_value]

\* run, lines 101-119: the signal acted on for a ticker
EffectiveSignal(sigs, ticker) ==
  LET portfolio_signal == Get(sigs, "Portfolio", 0)
      ticker_signal == Get(sigs, ticker, 0)
  IN IF portfolio_signal # 0 THEN portfolio_signal ELSE ticker_signal

\* Variant: an entry order is created whatever its quantity, 0 included.
MakeOrder_NoQuantityTest(signal, row, ticker, current_price, weights, timestamp) ==
  LET current_position == row.pos[ticker]
      target_value_num == row.total * Get(weights, ticker, 0)
      quantity == IntDiv(target_value_num, 100 * current_price)
      trade_quantity == quantity - current_position
  IN IF signal = 1 /\ current_position = 0
     THEN <<OrderEvent(timestamp, ticker, "MKT", quantity, "BUY")>>
     ELSE IF signal = -1 /\ current_position > 0
     THEN <<OrderEvent(timestamp, ticker, "MKT", current_position, "SELL")>>
     ELSE IF signal = 2
     THEN IF trade_quantity > 0
          THEN <<OrderEvent(timestamp, ticker, "MKT", trade_quantity, "BUY")>>
          ELSE IF trade_quantity < 0
          THEN <<OrderEvent(timestamp, ticker, "MKT", -trade_quantity, "SELL")>>
          ELSE <<>>
     ELSE <<>>

\* Variant: an entry is sized from the row's cash, not from its total.
MakeOrder_EntryFromCash(signal, row, ticker, current_price, weights, timestamp) ==
  LET current_position == row.pos[ticker]
      target_quantity ==
        IntDiv(row.total * Get(weights, ticker, 0), 100 * current_price)
      quantity ==
        IntDiv(row.cash * Get(weights, ticker, 0), 100 * current_price)
      trade_quantity == target_quantity - current_position
  IN IF signal = 1 /\ current_position = 0
     THEN IF quantity > 0
          THEN <<OrderEvent(timestamp, ticker, "MKT", quantity, "BUY")>>
          ELSE <<>>
     ELSE IF signal = -1 /\ current_position > 0
     THEN <<OrderEvent(timestamp, ticker, "MKT", current_position, "SELL")>>
     ELSE IF signal = 2
     THEN IF trade_quantity > 0
          THEN <<OrderEvent(timestamp, ticker, "MKT", trade_quantity, "BUY")>>
          ELSE IF trade_quantity < 0
          THEN <<OrderEvent(timestamp, ticker, "MKT", -trade_quantity, "SELL")>>
          ELSE <<>>
     ELSE <<>>

\* Variant: a rebalance sells the whole position when it is above target.
MakeOrder_RebalanceSellsAll(signal, row, ticker, current_price, weights, timestamp) ==
  LET current_position == row.pos[ticker]
      target_value_num == row.total * Get(weights, ticker, 0)
      quantity == IntDiv(target_value_num, 100 * current_price)
      trade_quantity == quantity - current_position
  IN IF signal = 1 /\ current_position = 0
     THEN IF quantity > 0
          THEN <<OrderEvent(timestamp, ticker, "MKT", quantity, "BUY")>>
          ELSE <<>>
     ELSE IF signal = -1 /\ current_position > 0
     THEN <<OrderEvent(timestamp, ticker, "MKT", current_position, "SELL")>>
     ELSE IF signal = 2
     THEN IF trade_quantity > 0
          THEN <<OrderEvent(timestamp, ticker, "MKT", trade_quantity, "BUY")>>
          ELSE IF trade_quantity < 0
          THEN <<OrderEvent(timestamp, ticker, "MKT", current_position,
                            "SELL")>>
          ELSE <<>>
     ELSE <<>>

\* Variant: a -1 signal sells the target quantity, held or not.
MakeOrder_ExitSellsTarget(signal, row, ticker, current_price, weights, timestamp) ==
  LET current_position == row.pos[ticker]
      target_value_num == row.total * Get(weights, ticker, 0)
      quantity == IntDiv(target_value_num, 100 * current_price)
      trade_quantity == quantity - current_position
  IN IF signal = 1 /\ current_position = 0
     THEN IF quantity > 0
          THEN <<OrderEvent(timestamp, ticker, "MKT", quantity, "BUY")>>
          ELSE <<>>
     ELSE IF signal = -1 /\ quantity > 0
     THEN <<OrderEvent(timestamp, ticker, "MKT", quantity, "SELL")>>
     ELSE IF signal = 2
     THEN IF trade_quantity > 0
          THEN <<OrderEvent(timestamp, ticker, "MKT", trade_quantity, "BUY")>>
          ELSE IF trade_quantity < 0
          THEN <<OrderEvent(timestamp, ticker, "MKT", -trade_quantity, "SELL")>>
          ELSE <<>>
     ELSE <<>>

\* run, lines 132-159: the order a signal creates (<<>> for None)
MakeOrder(signal, row, ticker, current_price, weights, timestamp) ==
  LET current_position == row.pos[ticker]
      target_value_num == row.total * Get(weights, ticker, 0)
      quantity == IntDiv(target_value_num, 100 * current_price)
      trade_quantity == quantity - current_position
  IN IF signal = 1 /\ current_position = 0
     THEN IF quantity > 0
          THEN <<OrderEvent(timestamp, ticker, "MKT", quantity, "BUY")>>
          ELSE <<>>
     ELSE IF signal = -1 /\ current_position > 0
     THEN <<OrderEvent(timestamp, ticker, "MKT", current_position, "SELL")>>
     ELSE IF signal = 2
     THEN IF trade_quantity > 0
          THEN <<OrderEvent(timestamp, ticker, "MKT", trade_quantity, "BUY")>>
          ELSE IF trade_quantity < 0
          THEN <<OrderEvent(timestamp, ticker, "MKT", -trade_quantity, "SELL")>>
          ELSE <<>>
     ELSE <<>>

\* Variant: a SELL credits the gross proceeds, without the commission.
ApplyFill_GrossProceeds(row, fill) ==
  IF fill.direction = "BUY"
  THEN [row EXCEPT !.cash = @ - total_cost(fill),
                   !.pos[fill.symbol] = @ + fill.quantity]
  ELSE [row EXCEPT !.cash = @ + fill.quantity * fill.fill_price,
                   !.pos[fill.symbol] = @ - fill.quantity]

\* run, lines 178-184: a fill applied to the row of the date
ApplyFill(row, fill) ==
  IF fill.direction = "BUY"
  THEN [row EXCEPT !.cash = @ - total_cost(fill),
                   !.pos[fill.symbol] = @ + fill.quantity]
  ELSE [row EXCEPT !.cash = @ + total_cost(fill),
                   !.pos[fill.symbol] = @ - fill.quantity]

\* Variant: the price cell is written only when the row has none, so a
\* price carried forward from an earlier date stays.
SetSnapshotPrice_OnlyIfMissing(row, symbol, price) ==
  IF symbol \in DOMAIN row.price THEN row
  ELSE [row EXCEPT !.price = Put(row.price, symbol, price)]

\* run, line 165: the snapshot gets the order's price before the risk check
SetSnapshotPrice(row, symbol, price) ==
  [row EXCEPT !.price = Put(row.price, symbol, price)]

\* run, lines 109-185: one iteration of the loop over all_tickers.
\* st = [row, trade_log, high_water_mark, calls]
ProcessTicker(st, ticker, prices, sigs, slips, weights, timestamp, c) ==
  LET signal == EffectiveSignal(sigs, ticker)
  IN IF signal = 0 \/ ticker \notin DOMAIN prices THEN st
     ELSE
     LET order == MakeOrder(signal, st.row, ticker, prices[ticker], weights,
                            timestamp)
     IN IF order = <<>> THEN st
        ELSE
        LET snapshot == SetSnapshotPrice(st.row, order[1].symbol, prices[ticker])
            assessed == assess_order(order[1], snapshot, st.high_water_mark, c)
            assess_call ==
              [op |-> "assess", order |-> order[1], equity |-> snapshot.total,
               snapshot_price |-> snapshot.price,
               current_price |-> prices[ticker],
               high_water_mark |-> assessed.high_water_mark,
               result |-> assessed.result]
        IN IF assessed.result = <<>>
           THEN [st EXCEPT !.row = snapshot,
                           !.high_water_mark = assessed.high_water_mark,
                           !.calls = Append(@, assess_call)]
           ELSE
           LET approved_order == assessed.result[1]
               fill_event == execute_order(approved_order, prices[ticker],
                                           slips[ticker], c)
               execute_call ==
                 [op |-> "execute", order |-> approved_order,
                  equity |-> snapshot.total,
                  snapshot_price |-> snapshot.price,
                  current_price |-> prices[ticker],
                  high_water_mark |-> assessed.high_water_mark,
                  result |-> <<fill_event>>]
           IN [row |-> ApplyFill(snapshot, fill_event),
               trade_log |-> Append(st.trade_log, fill_event),
               high_water_mark |-> assessed.high_water_mark,
               calls |-> st.calls \o <<assess_call, execute_call>>]

\* Variant: the loop runs over all_tickers from its last key to its first.
RECURSIVE ProcessTickers_LastFirst(_, _, _, _, _, _, _, _, _)
ProcessTickers_LastFirst(st, order, i, prices, sigs, slips, weights, timestamp, c) ==
  IF i > Len(order) THEN st
  ELSE ProcessTickers_LastFirst(
         ProcessTicker(st, order[Len(order) + 1 - i], prices, sigs, slips,
                       weights, timestamp, c),
         order, i + 1, prices, sigs, slips, weights, timestamp, c)

\* run, lines 109-185: the loop over all_tickers, in the order of the keys
\* of price_data.
RECURSIVE ProcessTickers(_, _, _, _, _, _, _, _, _)
ProcessTickers(st, order, i, prices, sigs, slips, weights, timestamp, c) ==
  IF i > Len(order) THEN st
  ELSE ProcessTickers(
         ProcessTicker(st, order[i], prices, sigs, slips, weights, timestamp, c),
         order, i + 1, prices, sigs, slips, weights, timestamp, c)

\* Variant: the signals of a date are processed only when every ticker has
\* an as-of price.
RunDate_AllPricedOnly(b, all_tickers, bars, prev_prices, sigs, slips, weights, c) ==
  LET timestamp == Len(b.portfolio) + 1
      prices == AsOfPrices(prev_prices, bars)
      row == MarkToMarket(CarryForward(b.portfolio, c), prices)
      st0 == [row |-> row, trade_log |-> b.trade_log,
              high_water_mark |-> b.high_water_mark, calls |-> <<>>]
      st == IF \/ DOMAIN sigs = {}
               \/ \E i \in DOMAIN all_tickers : all_tickers[i] \notin DOMAIN prices
            THEN st0
            ELSE ProcessTickers(st0, all_tickers, 1, prices, sigs, slips,
                                weights, timestamp, c)
  IN [b |-> [portfolio |-> Append(b.portfolio, st.row),
             trade_log |-> st.trade_log,
             high_water_mark |-> st.high_water_mark],
      calls |-> st.calls]

\* run, lines 70-185: one iteration of the loop over full_timeline, for the
\* tickers in the order all_tickers.  bars: the Close of the price bars dated
\* this date; sigs: the signal entries dated this date.
RunDate(b, all_tickers, bars, prev_prices, sigs, slips, weights, c) ==
  LET timestamp == Len(b.portfolio) + 1
      prices == AsOfPrices(prev_prices, bars)
      row == MarkToMarket(CarryForward(b.portfolio, c), prices)
      st0 == [row |-> row, trade_log |-> b.trade_log,
              high_water_mark |-> b.high_water_mark, calls |-> <<>>]
      st == IF DOMAIN sigs = {} THEN st0
            ELSE ProcessTickers(st0, all_tickers, 1, prices, sigs, slips,
                                weights, timestamp, c)
  IN [b |-> [portfolio |-> Append(b.portfolio, st.row),
             trade_log |-> st.trade_log,
             high_water_mark |-> st.high_water_mark],
      calls |-> st.calls]

-----------------------------------------------------------------------------------------------------------------------------------------------------
(* The state machine of one run of PortfolioBacktester.run on a backtester
   constructed for it.  The inputs price_data and signals_data are read date
   by date. *)

\* The tickers execute_order is called for on a date.  Whether it is called
\* does not depend on the draws: an order is sized from the row's total and
\* the ticker's own position.
Executed(b, all_tickers, bars, prev_prices, sigs, weights, c) ==
  LET r == RunDate(b, all_tickers, bars, prev_prices, sigs,
                   [t \in TickerSet |-> 0], weights, c)
  IN {r.b.trade_log[i].symbol :
        i \in (Len(b.trade_log) + 1)..Len(r.b.trade_log)}

\* One random draw per execute_order call of the date.
Draws(executed, c) ==
  { [t \in TickerSet |-> IF t \in DOMAIN d THEN d[t] ELSE 0] :
      d \in [executed -> SlippageDraws(c.slippage_pct)] }

\* A date no signal source carries, and the state before the first date.
NoSignals == [s \in {} |-> 0]

\* price_data without the panel of B: its keys, and a date's bars.
WithoutB(tickers) == SelectSeq(tickers, LAMBDA t : t # "B")
Panels(bars, keep) == [t \in DOMAIN bars \cap keep |-> bars[t]]

Init ==
  /\ \E args \in RunArgs : cfg = args[1] /\ target_weights = args[2]
  /\ pc = "running"
  /\ trial = 1
  /\ price_data = <<>>
  /\ current_prices = [t \in {} |-> 0]
  /\ bt = NewBacktester
  /\ fresh = NewBacktester
  /\ fresh2 = NewBacktester
  /\ rev = NewBacktester
  /\ calls = <<>>
  /\ equities = {}
  /\ day_signals = NoSignals
  /\ solo = NewBacktester
  /\ signals_data = <<>>
  /\ full_timeline = <<>>
  /\ returned_fill = <<>>
  /\ cost = <<>>
  /\ FunctionVarsIdle

\* One date of full_timeline: at least one price bar or one signal entry
\* carries the date.
RunDay ==
  /\ pc = "running"
  /\ Len(bt.portfolio) < MaxDays
  /\ \E bars \in BarChoices, sigs \in SigChoices :
       /\ DOMAIN bars \cup DOMAIN sigs # {}
       /\ \E slips \in Draws(Executed(bt, Tickers, bars, current_prices,
                                         sigs, target_weights, cfg), cfg),
             slips2 \in Draws(Executed(fresh2, Tickers, bars, current_prices,
                                          sigs, target_weights, cfg), cfg) :
            /\ \E r \in {RunDate(bt, Tickers, bars, current_prices, sigs,
                                 slips, target_weights, cfg)} :
                  /\ bt' = r.b
                  /\ calls' = r.calls
                  /\ equities' = equities \cup
                       {r.calls[i].equity : i \in {j \in DOMAIN r.calls :
                                                     r.calls[j].op = "assess"}}
            /\ fresh2' = RunDate(fresh2, Tickers, bars, current_prices, sigs,
                                 slips2, target_weights, cfg).b
            /\ rev' = RunDate(rev, Reverse(Tickers), bars, current_prices, sigs,
                              slips, target_weights, cfg).b
            /\ solo' = RunDate(solo, WithoutB(Tickers), Panels(bars, {"A"}),
                               Panels(current_prices, {"A"}), sigs, slips,
                               target_weights, cfg).b
       /\ current_prices' = AsOfPrices(current_prices, bars)
       /\ day_signals' = sigs
  /\ UNCHANGED <<cfg, pc, trial, price_data, signals_data, full_timeline,
                 target_weights, fresh, returned_fill, cost, function_vars>>

\* run returns the table and the trade log.
FinishRun ==
  /\ pc = "running"
  /\ pc' = "done"
  /\ UNCHANGED <<cfg, trial, price_data, signals_data, full_timeline,
                 target_weights, current_prices, bt, fresh, fresh2, rev,
                 calls, equities, day_signals, solo, returned_fill, cost,
                 function_vars>>

Next == RunDay \/ FinishRun

Spec == Init /\ [][Next]_vars

-----------------------------------------------------------------------------
(* The state machine of PortfolioOptimizer.run_monte_carlo: one
   PortfolioBacktester, constructed with its defaults, runs every trial on the
   optimizer's price_data, with the signals of the strategy model and the
   weights of the trial.  Next to it, a backtester constructed for the trial
   runs on the same inputs with the same fill prices. *)

\* Trials of one run_monte_carlo call.
MaxTrials == 2

\* The defaults of PortfolioBacktester(), PortfolioRiskManager() and
\* SimulatedExecutionHandler().
Defaults ==
  [initial_capital |-> 100000, max_trade_risk_pct |-> 2,
   max_portfolio_drawdown_pct |-> 20, slippage_pct |-> 5,
   commission_per_trade |-> 1]

\* Close prices of the optimizer's price_data.
OptPrices == {2000, 28000}
\* The bars of one date: both assets trade (B at 2000), or only A does.
OptBarChoices ==
  { [t \in TickerSet |-> IF t = "A" THEN p ELSE 2000] : p \in OptPrices }
    \cup [{"A"} -> OptPrices]
\* Random weights, normalised to sum to 1 (percent).
OptWeightChoices ==
  { [t \in TickerSet |-> 50],
    [t \in TickerSet |-> IF t = "A" THEN 80 ELSE 20] }

\* BuyAndHoldStrategy.generate_signals on each ticker's price table: signal
\* 1 on every date of the table.
BuyAndHoldSignals(bars) == [t \in DOMAIN bars |-> 1]

InitOpt ==
  /\ cfg = Defaults
  /\ pc = "idle"
  /\ trial = 0
  /\ price_data \in UNION {[1..n -> OptBarChoices] : n \in 0..MaxDays}
  /\ target_weights = [t \in {} |-> 0]
  /\ current_prices = [t \in {} |-> 0]
  /\ bt = NewBacktester
  /\ fresh = NewBacktester
  /\ fresh2 = NewBacktester
  /\ rev = NewBacktester
  /\ calls = <<>>
  /\ equities = {}
  /\ day_signals = NoSignals
  /\ solo = NewBacktester
  /\ signals_data = <<>>
  /\ full_timeline = <<>>
  /\ returned_fill = <<>>
  /\ cost = <<>>
  /\ FunctionVarsIdle

\* The head of the loop over the trials, up to the entry of backtester.run:
\* the table and the trade log of the run are new, the risk manager is the
\* one the backtester was constructed with.
OptStartTrial ==
  /\ pc = "idle"
  /\ trial < MaxTrials
  /\ pc' = "running"
  /\ trial' = trial + 1
  /\ target_weights' \in OptWeightChoices
  /\ current_prices' = [t \in {} |-> 0]
  /\ bt' = [bt EXCEPT !.portfolio = <<>>, !.trade_log = <<>>]
  /\ fresh' = NewBacktester
  /\ calls' = <<>>
  /\ day_signals' = NoSignals
  /\ UNCHANGED <<cfg, price_data, signals_data, full_timeline, fresh2, rev,
                 equities, solo, returned_fill, cost, function_vars>>

\* One date of the trial's run.
OptRunDay ==
  /\ pc = "running"
  /\ Len(bt.portfolio) < Len(price_data)
  /\ LET bars == price_data[Len(bt.portfolio) + 1]
         sigs == BuyAndHoldSignals(bars)
     IN \E slips \in Draws(Executed(bt, Tickers, bars, current_prices, sigs,
                                    target_weights, cfg)
                             \cup Executed(fresh, Tickers, bars,
                                           current_prices, sigs,
                                           target_weights, cfg), cfg) :
          /\ LET r == RunDate(bt, Tickers, bars, current_prices, sigs, slips,
                              target_weights, cfg)
             IN /\ bt' = r.b
                /\ calls' = r.calls
                /\ equities' = equities \cup
                     {r.calls[i].equity : i \in {j \in DOMAIN r.calls :
                                                   r.calls[j].op = "assess"}}
          /\ fresh' = RunDate(fresh, Tickers, bars, current_prices, sigs,
                              slips, target_weights, cfg).b
          /\ current_prices' = AsOfPrices(current_prices, bars)
          /\ day_signals' = sigs
  /\ UNCHANGED <<cfg, pc, trial, price_data, signals_data, full_timeline,
                 target_weights, fresh2, rev, solo, returned_fill, cost,
                 function_vars>>

\* backtester.run returns (at once when price_data has no date).
OptFinishTrial ==
  /\ pc = "running"
  /\ Len(bt.portfolio) = Len(price_data)
  /\ pc' = "idle"
  /\ UNCHANGED <<cfg, trial, price_data, signals_data, full_timeline,
                 target_weights, current_prices, bt, fresh, fresh2, rev,
                 calls, equities, day_signals, solo, returned_fill, cost,
                 function_vars>>

NextOpt == OptStartTrial \/ OptRunDay \/ OptFinishTrial

SpecOpt == InitOpt /\ [][NextOpt]_vars

-----------------------------------------------------------------------------
(* The state machine of one run of PortfolioBacktester.run on price_data and
   signals_data given whole, by calendar date: the run builds full_timeline
   and loops over it. *)

\* Calendar dates the inputs can carry.
CalendarDays == 3
Calendar == 1..CalendarDays

\* The price bars a calendar date can carry: both assets trade, only A
\* trades, or the date is in no price panel.
PanelBarChoices ==
  {[t \in TickerSet |-> 100], [t \in {"A"} |-> 100], [t \in {} |-> 100]}
\* The signal entries a calendar date can carry: none, an entry per asset,
\* a 'Portfolio' entry, or an entry of a source X that has no price panel.
PanelSigChoices ==
  {NoSignals, [s \in TickerSet |-> 1], [s \in {"Portfolio"} |-> 2],
   [s \in {"X"} |-> 1]}

\* sorted(list(...)) of a set of dates
RECURSIVE Sorted(_)
Sorted(S) ==
  IF S = {} THEN <<>>
  ELSE LET least == CHOOSE x \in S : \A y \in S : x <= y
       IN <<least>> \o Sorted(S \ {least})

\* Variant: the timeline of the price panels alone.
FullTimeline_PriceDatesOnly(prices_by_date, signals_by_date) ==
  Sorted({d \in DOMAIN prices_by_date : DOMAIN prices_by_date[d] # {}})

\* run, lines 41-51: the sorted union of the dates of every signal source
\* and of every price panel
FullTimeline(prices_by_date, signals_by_date) ==
  LET all_signal_dates ==
        {d \in DOMAIN signals_by_date : DOMAIN signals_by_date[d] # {}}
      all_price_dates ==
        {d \in DOMAIN prices_by_date : DOMAIN prices_by_date[d] # {}}
  IN Sorted(all_price_dates \cup all_signal_dates)

InitTimeline ==
  /\ cfg = NoSlippage
  /\ target_weights = [t \in TickerSet |-> 50]
  /\ pc = "called"
  /\ trial = 1
  /\ price_data \in [Calendar -> PanelBarChoices]
  /\ signals_data \in [Calendar -> PanelSigChoices]
  /\ full_timeline = <<>>
  /\ current_prices = [t \in {} |-> 0]
  /\ bt = NewBacktester
  /\ fresh = NewBacktester
  /\ fresh2 = NewBacktester
  /\ rev = NewBacktester
  /\ calls = <<>>
  /\ equities = {}
  /\ day_signals = NoSignals
  /\ solo = NewBacktester
  /\ returned_fill = <<>>
  /\ cost = <<>>
  /\ FunctionVarsIdle

\* run, lines 41-55: full_timeline is built; with no date at all run
\* returns an empty table and an empty trade log.
BuildTimeline ==
  /\ pc = "called"
  /\ full_timeline' = FullTimeline(price_data, signals_data)
  /\ pc' = IF full_timeline' = <<>> THEN "done" ELSE "running"
  /\ UNCHANGED <<cfg, trial, price_data, signals_data, target_weights,
                 current_prices, bt, fresh, fresh2, rev, calls, equities,
                 day_signals, solo, returned_fill, cost, function_vars>>

\* One iteration of the loop over full_timeline.
TimelineRunDay ==
  /\ pc = "running"
  /\ Len(bt.portfolio) < Len(full_timeline)
  /\ LET timestamp == full_timeline[Len(bt.portfolio) + 1]
         bars == price_data[timestamp]
         sigs == signals_data[timestamp]
         r == RunDate(bt, Tickers, bars, current_prices, sigs,
                      [t \in TickerSet |-> 0], target_weights, cfg)
     IN /\ bt' = r.b
        /\ calls' = r.calls
        /\ equities' = equities \cup
             {r.calls[i].equity : i \in {j \in DOMAIN r.calls :
                                           r.calls[j].op = "assess"}}
        /\ current_prices' = AsOfPrices(current_prices, bars)
        /\ day_signals' = sigs
  /\ UNCHANGED <<cfg, pc, trial, price_data, signals_data, full_timeline,
                 target_weights, fresh, fresh2, rev, solo, returned_fill,
                 cost, function_vars>>

\* run returns the table and the trade log.
TimelineFinish ==
  /\ pc = "running"
  /\ Len(bt.portfolio) = Len(full_timeline)
  /\ pc' = "done"
  /\ UNCHANGED <<cfg, trial, price_data, signals_data, full_timeline,
                 target_weights, current_prices, bt, fresh, fresh2, rev,
                 calls, equities, day_signals, solo, returned_fill, cost,
                 function_vars>>

NextTimeline == BuildTimeline \/ TimelineRunDay \/ TimelineFinish

SpecTimeline == InitTimeline /\ [][NextTimeline]_vars

-----------------------------------------------------------------------------
(* FillEvent.total_cost on the fills an execution handler can return. *)

\* Shares of a fill.
MaxQuantity == 10
\* Fill prices and commissions.
FillPrices == {50, 100}
Commissions == {0, 1, 2}

InitFill ==
  /\ \E d \in {"BUY", "SELL"}, q \in 1..MaxQuantity, p \in FillPrices,
        k \in Commissions :
       returned_fill = <<FillEvent(1, "A", d, q, p, k)>>
  /\ cost = <<>>
  /\ cfg = NoSlippage
  /\ target_weights = [t \in {} |-> 0]
  /\ pc = "done"
  /\ trial = 0
  /\ price_data = <<>>
  /\ signals_data = <<>>
  /\ full_timeline = <<>>
  /\ current_prices = [t \in {} |-> 0]
  /\ bt = NewBacktester
  /\ fresh = NewBacktester
  /\ fresh2 = NewBacktester
  /\ rev = NewBacktester
  /\ calls = <<>>
  /\ equities = {}
  /\ day_signals = NoSignals
  /\ solo = NewBacktester
  /\ FunctionVarsIdle

\* The property total_cost is read.
ReadTotalCost ==
  /\ returned_fill # <<>>
  /\ cost = <<>>
  /\ cost' = <<total_cost(returned_fill[1])>>
  /\ UNCHANGED <<cfg, pc, trial, price_data, signals_data, full_timeline,
                 target_weights, current_prices, bt, fresh, fresh2, rev,
                 calls, equities, day_signals, solo, returned_fill,
                 function_vars>>

NextFill == ReadTotalCost

SpecFill == InitFill /\ [][NextFill]_vars

-----------------------------------------------------------------------------
(* One run of PortfolioBacktester.run on one asset whose price rises bar
   after bar, bought on the first bar and sold on the last.  Money is in
   1/1960 of the currency unit, so that the prices of the bars and the fill
   prices at a slippage of 5/10000 are whole numbers. *)

\* Bars of the price panel.
ScenarioBars == 50
\* Money units per currency unit.
ScenarioUnit == 1960

\* Close of bar d: 100 on the first bar, rising by 50/49 a bar (150 on the
\* 50th).
ScenarioClose(d) == (4900 + 50 * (d - 1)) * (ScenarioUnit \div 49)

\* PortfolioBacktester(initial_capital=10000): the default risk manager and
\* execution handler; and the same with a risk cap of the whole equity and
\* no slippage.
ScenarioDefaults ==
  [initial_capital |-> 10000 * ScenarioUnit, max_trade_risk_pct |-> 2,
   max_portfolio_drawdown_pct |-> 20, slippage_pct |-> 5,
   commission_per_trade |-> 1 * ScenarioUnit]
ScenarioFullSize ==
  [initial_capital |-> 10000 * ScenarioUnit, max_trade_risk_pct |-> 100,
   max_portfolio_drawdown_pct |-> 20, slippage_pct |-> 0,
   commission_per_trade |-> 1 * ScenarioUnit]

\* The signal table of the asset: 1 on the first bar, -1 on the last, and
\* on the bars between either the entry 0 or no entry.
ScenarioSignals(between) ==
  [d \in 1..ScenarioBars |->
     IF d = 1 THEN [s \in {"A"} |-> 1]
     ELSE IF d = ScenarioBars THEN [s \in {"A"} |-> -1]
     ELSE between]

InitScenario ==
  /\ cfg \in {ScenarioDefaults, ScenarioFullSize}
  /\ target_weights = [t \in {"A"} |-> 100]
  /\ pc = "called"
  /\ trial = 1
  /\ price_data = [d \in 1..ScenarioBars |-> [t \in {"A"} |-> ScenarioClose(d)]]
  /\ \E between \in {NoSignals, [s \in {"A"} |-> 0]} :
       signals_data = ScenarioSignals(between)
  /\ full_timeline = <<>>
  /\ current_prices = [t \in {} |-> 0]
  /\ bt = NewBacktester
  /\ fresh = NewBacktester
  /\ fresh2 = NewBacktester
  /\ rev = NewBacktester
  /\ calls = <<>>
  /\ equities = {}
  /\ day_signals = NoSignals
  /\ solo = NewBacktester
  /\ returned_fill = <<>>
  /\ cost = <<>>
  /\ FunctionVarsIdle

\* One iteration of the loop over full_timeline, price_data having the one
\* key A.
ScenarioRunDay ==
  /\ pc = "running"
  /\ Len(bt.portfolio) < Len(full_timeline)
  /\ LET timestamp == full_timeline[Len(bt.portfolio) + 1]
         bars == price_data[timestamp]
         sigs == signals_data[timestamp]
     IN \E slips \in Draws(Executed(bt, WithoutB(Tickers), bars,
                                    current_prices, sigs, target_weights,
                                    cfg), cfg) :
          /\ \E r \in {RunDate(bt, WithoutB(Tickers), bars, current_prices,
                               sigs, slips, target_weights, cfg)} :
               /\ bt' = r.b
               /\ calls' = r.calls
               /\ equities' = equities \cup
                    {r.calls[i].equity : i \in {j \in DOMAIN r.calls :
                                                  r.calls[j].op = "assess"}}
          /\ current_prices' = AsOfPrices(current_prices, bars)
          /\ day_signals' = sigs
  /\ UNCHANGED <<cfg, pc, trial, price_data, signals_data, full_timeline,
                 target_weights, fresh, fresh2, rev, solo, returned_fill,
                 cost, function_vars>>

NextScenario == BuildTimeline \/ ScenarioRunDay \/ TimelineFinish

SpecScenario == InitScenario /\ [][NextScenario]_vars

-----------------------------------------------------------------------------
(* The single-asset Backtester (src/backtesting/backtester.py) *)

\* The state of the portfolio backtester, and its value while no
\* PortfolioBacktester exists.
portfolio_vars == <<cfg, pc, trial, price_data, target_weights,
                    current_prices, bt, fresh, fresh2, rev, calls, equities,
                    day_signals, solo, signals_data, full_timeline,
                    returned_fill, cost>>
PortfolioVarsIdle ==
  /\ cfg = NoSlippage
  /\ target_weights = [t \in {} |-> 0]
  /\ pc = "done"
  /\ trial = 0
  /\ price_data = <<>>
  /\ signals_data = <<>>
  /\ full_timeline = <<>>
  /\ current_prices = [t \in {} |-> 0]
  /\ bt = NewBacktester
  /\ fresh = NewBacktester
  /\ fresh2 = NewBacktester
  /\ rev = NewBacktester
  /\ calls = <<>>
  /\ equities = {}
  /\ day_signals = NoSignals
  /\ solo = NewBacktester
  /\ returned_fill = <<>>
  /\ cost = <<>>

MaxBars == 3
SingleCloses == {2, 3}
SingleSignals == {-1, 0, 1}
SingleCapitals == {100000}

\* A float that is not NaN is kept as an exact fraction with a positive
\* denominator; NaN is the one value with denominator 0.
Frac(n, d) == [num |-> n, den |-> d]
NaN == Frac(0, 0)
SameValue(x, y) ==
  IF x = NaN \/ y = NaN THEN x = y ELSE x.num * y.den = y.num * x.den

\* df['Signal'].replace(0, np.nan).ffill().fillna(0)
RECURSIVE Position(_, _)
Position(signals, i) ==
  IF i = 0 THEN 0
  ELSE IF signals[i] # 0 THEN signals[i]
  ELSE Position(signals, i - 1)

\* df['Close'].pct_change(): NaN on the first bar.
Asset_Return(close, i) ==
  IF i = 1 THEN NaN ELSE Frac(close[i] - close[i - 1], close[i - 1])

\* df['Position'].shift(1) * df['Asset_Return']: NaN on the first bar.
Strategy_Return_SameBar(close, signals, i) ==
  IF i = 1 THEN NaN
  ELSE LET r == Asset_Return(close, i)
       IN  Frac(Position(signals, i) * r.num, r.den)
Strategy_Return(close, signals, i) ==
  IF i = 1 THEN NaN
  ELSE LET r == Asset_Return(close, i)
       IN  Frac(Position(signals, i - 1) * r.num, r.den)

\* (1 + df['Strategy_Return']).cumprod(): a NaN entry stays NaN and is
\* left out of the running product.
RECURSIVE CumProd(_, _, _)
CumProd(close, signals, i) ==
  IF i = 0 THEN Frac(1, 1)
  ELSE LET before == CumProd(close, signals, i - 1)
           r == Strategy_Return(close, signals, i)
       IN  IF r = NaN THEN before
           ELSE Frac(before.num * (r.den + r.num), before.den * r.den)

Portfolio_Value(close, signals, initial_capital, i) ==
  IF Strategy_Return(close, signals, i) = NaN THEN NaN
  ELSE LET c == CumProd(close, signals, i)
       IN  Frac(initial_capital * c.num, c.den)

\* Backtester(data, signals, initial_capital); portfolio None is <<>>.
Backtester(data, signals, initial_capital) ==
  [data |-> data, signals |-> signals, initial_capital |-> initial_capital,
   position |-> <<>>, portfolio |-> <<>>]

\* run_backtest: the Position column of the frame it builds, and the
\* Portfolio_Value column it stores and returns.
run_backtest(self) ==
  [self EXCEPT
     !.position = [i \in DOMAIN self.data |-> Position(self.signals, i)],
     !.portfolio = [i \in DOMAIN self.data |->
                      Portfolio_Value(self.data, self.signals,
                                      self.initial_capital, i)]]

\* The twin's prices are those of the first run up to a bar, and the other
\* price from that bar on; its signals are those of the first run up to a
\* bar, and one signal from that bar on.
OtherClose(c) == CHOOSE x \in SingleCloses : x # c
TwinData(data, k) ==
  [i \in DOMAIN data |-> IF i < k THEN data[i] ELSE OtherClose(data[i])]
TwinSignals(signals, j, v) ==
  [i \in DOMAIN signals |-> IF i < j THEN signals[i] ELSE v]

InitSingle ==
  /\ PortfolioVarsIdle
  /\ \E n \in 1..MaxBars :
       \E data \in [1..n -> SingleCloses], signals \in [1..n -> SingleSignals],
          k \in 1..(n + 1), j \in 1..n, v \in SingleSignals,
          capital \in SingleCapitals :
         /\ backtester = <<Backtester(data, signals, capital)>>
         /\ twin = <<Backtester(TwinData(data, k), TwinSignals(signals, j, v),
                                capital)>>
  /\ universe_call = <<>>
  /\ tickers_returned = <<>>
  /\ analyzed = <<>>
  /\ metrics = <<>>
  /\ z_zones = <<>>
  /\ final_signals = <<>>

RunBacktest ==
  /\ backtester # <<>>
  /\ backtester[1].portfolio = <<>>
  /\ backtester' = <<run_backtest(backtester[1])>>
  /\ UNCHANGED <<portfolio_vars, twin, universe_call, tickers_returned,
                 analyzed, metrics, z_zones, final_signals>>

RunTwin ==
  /\ twin # <<>>
  /\ twin[1].portfolio = <<>>
  /\ twin' = <<run_backtest(twin[1])>>
  /\ UNCHANGED <<portfolio_vars, backtester, universe_call, tickers_returned,
                 analyzed, metrics, z_zones, final_signals>>

NextSingle == RunBacktest \/ RunTwin

SpecSingle == InitSingle /\ [][NextSingle]_vars

-----------------------------------------------------------------------------
(* DynamicUniverse (src/data_pipeline/dynamic_universe.py) *)

MaxRows == 3
UniverseSources ==
  {"sp500", "SP500", "dowjones", "nasdaq100", "crypto", "unsupported_source"}
\* source.lower()
Lower(source) == IF source = "SP500" THEN "sp500" ELSE source
SourceMap == {"sp500", "dowjones", "nasdaq100", "crypto"}

\* What the network gives: the step that fails, if one does, and the rows of
\* the table (the items of the JSON list) otherwise.  A row is the text of
\* its first cell; the empty text is a row without a td (an item without a
\* symbol).
Failures == {"none", "RequestException", "HTTPError", "no_table", "Exception"}
CellTexts == {"AAPL", " MSFT ", ""}
Responses ==
  [failure : Failures,
   rows : UNION {[1..n -> CellTexts] : n \in 0..MaxRows}]

\* str.strip()
Strip(text) == IF text = " MSFT " THEN "MSFT" ELSE text
\* symbol.upper().split("-")[0].split(" ")[0], then f"{clean_symbol}-USD"
CryptoTicker(text) == IF text = "AAPL" THEN "AAPL-USD" ELSE "-USD"

\* The rows a fetch method reads, and what it makes of one.
Eligible(source, rows) ==
  IF source = "sp500" THEN {k \in DOMAIN rows : k > 1 /\ rows[k] # ""}
  ELSE IF source = "crypto" THEN {k \in DOMAIN rows : rows[k] # ""}
  ELSE DOMAIN rows
Clean(source, text) ==
  IF source \in {"sp500", "dowjones"} THEN Strip(text)
  ELSE IF source = "crypto" THEN CryptoTicker(text)
  ELSE text

\* The list comprehension (the loop) of a fetch method, over rows 1..k.
RECURSIVE Collect(_, _, _)
Collect(source, rows, k) ==
  IF k = 0 THEN <<>>
  ELSE IF k \in Eligible(source, rows)
       THEN Append(Collect(source, rows, k - 1), Clean(source, rows[k]))
       ELSE Collect(source, rows, k - 1)

\* The exceptions a fetch method handles by returning [].
Handled_ConnectionOnly == {"RequestException"}
Handled == {"RequestException", "HTTPError", "Exception"}

Returned(value) == [raised |-> FALSE, value |-> value]
Raised == [raised |-> TRUE, value |-> <<>>]

\* _fetch_sp500_tickers and the three methods of the same shape.  The JSON
\* of the crypto source has no table: a body that is not a list of items
\* raises in the loop.
fetch_function(source, response) ==
  IF response.failure \in Handled THEN Returned(<<>>)
  ELSE IF response.failure = "no_table" THEN Returned(<<>>)
  ELSE IF response.failure = "none"
       THEN Returned(Collect(source, response.rows, Len(response.rows)))
  ELSE Raised

get_tickers(source, response) ==
  IF Lower(source) \in SourceMap THEN fetch_function(Lower(source), response)
  ELSE Returned(<<>>)

InitUniverse ==
  /\ PortfolioVarsIdle
  /\ backtester = <<>>
  /\ twin = <<>>
  /\ \E source \in UniverseSources, response \in Responses :
       universe_call = <<[source |-> source, response |-> response]>>
  /\ tickers_returned = <<>>
  /\ analyzed = <<>>
  /\ metrics = <<>>
  /\ z_zones = <<>>
  /\ final_signals = <<>>

GetTickers ==
  /\ universe_call # <<>>
  /\ tickers_returned = <<>>
  /\ tickers_returned' =
       <<get_tickers(universe_call[1].source, universe_call[1].response)>>
  /\ UNCHANGED <<portfolio_vars, backtester, twin, universe_call, analyzed,
                 metrics, z_zones, final_signals>>

NextUniverse == GetTickers

SpecUniverse == InitUniverse /\ [][NextUniverse]_vars

-----------------------------------------------------------------------------
(* PortfolioBacktester.get_performance_metrics and PerformanceAnalyzer *)

MetricsDays == 2
MetricsCapitals == {1000, 100000}
MetricsBarChoices ==
  {[t \in {"A"} |-> 100], [t \in {"A"} |-> 110], [t \in {} |-> 100]}
MetricsSigChoices == {NoSignals, [s \in {"A"} |-> 1]}

\* A float kept as a fraction in lowest terms.
RECURSIVE GCD(_, _)
GCD(a, b) == IF b = 0 THEN a ELSE GCD(b, a % b)
Abs(x) == IF x < 0 THEN 0 - x ELSE x
Reduced(n, d) ==
  LET g == GCD(Abs(n), d) IN Frac(n \div g, d \div g)

\* PerformanceAnalyzer.__init__(portfolio_history, benchmark_history=None,
\* initial_capital=100000.0); None is <<>>.
AnalyzerDefaultCapital == 100000
PerformanceAnalyzer(portfolio_history, benchmark_history, initial_capital) ==
  [portfolio_value |-> portfolio_history, benchmark |-> benchmark_history,
   initial_capital |-> initial_capital]

\* calculate_all_metrics: 'Final Value' and 'Total Return'
calculate_all_metrics(self) ==
  LET final_value == self.portfolio_value[Len(self.portfolio_value)]
  IN  [Final_Value |-> final_value,
       Total_Return |-> Reduced(final_value - self.initial_capital,
                                self.initial_capital)]

\* get_performance_metrics: {} is <<>>, a dict of metrics is <<dict>>.  The
\* second positional argument of PerformanceAnalyzer is benchmark_history.
get_performance_metrics(self) ==
  IF self.results = <<>> \/ self.results[1] = <<>> THEN <<>>
  ELSE <<calculate_all_metrics(
           PerformanceAnalyzer(self.results[1], <<self.initial_capital>>,
                               AnalyzerDefaultCapital))>>

\* The object before run is called: results is None, or the table of an
\* earlier run of one date without a trade.
InitMetrics ==
  /\ \E capital \in MetricsCapitals :
       /\ cfg = [NoSlippage EXCEPT !.initial_capital = capital]
       /\ \E results \in {<<>>, << <<capital>> >>} :
            analyzed = <<[initial_capital |-> capital, results |-> results]>>
  /\ target_weights = [t \in TickerSet |-> IF t = "A" THEN 100 ELSE 0]
  /\ pc = "called"
  /\ trial = 1
  /\ price_data \in [1..MetricsDays -> MetricsBarChoices]
  /\ signals_data \in [1..MetricsDays -> MetricsSigChoices]
  /\ full_timeline = <<>>
  /\ current_prices = [t \in {} |-> 0]
  /\ bt = NewBacktester
  /\ fresh = NewBacktester
  /\ fresh2 = NewBacktester
  /\ rev = NewBacktester
  /\ calls = <<>>
  /\ equities = {}
  /\ day_signals = NoSignals
  /\ solo = NewBacktester
  /\ returned_fill = <<>>
  /\ cost = <<>>
  /\ backtester = <<>>
  /\ twin = <<>>
  /\ universe_call = <<>>
  /\ tickers_returned = <<>>
  /\ metrics = <<>>
  /\ z_zones = <<>>
  /\ final_signals = <<>>

\* run, lines 186-190: self.results = portfolio
MetricsFinish ==
  /\ pc = "running"
  /\ Len(bt.portfolio) = Len(full_timeline)
  /\ pc' = "done"
  /\ analyzed' =
       <<[analyzed[1] EXCEPT
            !.results = <<[i \in DOMAIN bt.portfolio |->
                             bt.portfolio[i].total]>>]>>
  /\ UNCHANGED <<cfg, trial, price_data, signals_data, full_timeline,
                 target_weights, current_prices, bt, fresh, fresh2, rev,
                 calls, equities, day_signals, solo, returned_fill, cost,
                 backtester, twin, universe_call, tickers_returned, metrics,
                 z_zones, final_signals>>

\* get_performance_metrics, called before run or after it returned; the
\* object and the moment of the call are kept with what it returned.
GetPerformanceMetrics ==
  /\ pc \in {"called", "done"}
  /\ metrics = <<>>
  /\ metrics' = <<[self |-> analyzed[1], after_run |-> pc = "done",
                   returned |-> get_performance_metrics(analyzed[1])]>>
  /\ UNCHANGED <<portfolio_vars, backtester, twin, universe_call,
                 tickers_returned, analyzed, z_zones, final_signals>>

NextMetrics ==
  BuildTimeline \/ TimelineRunDay \/ MetricsFinish \/ GetPerformanceMetrics

SpecMetrics == InitMetrics /\ [][NextMetrics]_vars

-----------------------------------------------------------------------------
(* PairsTradingStrategy (src/alpha_models/pairs_trading.py) *)

MaxPairBars == 3
\* Where the z-score of the spread is on a bar: NaN (the rolling window is
\* not full), below -threshold, above +threshold, inside the exit band
\* |z| < 0.5, or between the band and a threshold.
Zones == {"nan", "below", "above", "exit", "between"}

\* generate_signals, lines 62-80: the desired position of each asset.  The
\* three np.where passes leave no NaN, so ffill and fillna change nothing.
PairPosition(zone) ==
  LET start == [asset1 |-> 0, asset2 |-> 0]
      long_spread == IF zone = "below"
                     THEN [asset1 |-> 1, asset2 |-> -1] ELSE start
      short_spread == IF zone = "above"
                      THEN [asset1 |-> -1, asset2 |-> 1] ELSE long_spread
  IN  IF zone = "exit" THEN [asset1 |-> 0, asset2 |-> 0] ELSE short_spread

\* generate_signals, line 84: positions.diff().fillna(0)
generate_signals(zones) ==
  [i \in DOMAIN zones |->
     IF i = 1 THEN [asset1 |-> 0, asset2 |-> 0]
     ELSE [asset1 |-> PairPosition(zones[i]).asset1
                        - PairPosition(zones[i - 1]).asset1,
           asset2 |-> PairPosition(zones[i]).asset2
                        - PairPosition(zones[i - 1]).asset2]]

\* The dashboard has a pair's prices and a PairsTradingStrategy; asset1 is
\* A and asset2 is B.
InitPairs ==
  /\ cfg = NoSlippage
  /\ target_weights = [t \in TickerSet |-> 50]
  /\ pc = "strategy"
  /\ trial = 1
  /\ \E n \in 1..MaxPairBars :
       /\ z_zones \in [1..n -> Zones]
       /\ price_data = [d \in 1..n |-> [t \in TickerSet |-> 100]]
  /\ signals_data = <<>>
  /\ full_timeline = <<>>
  /\ current_prices = [t \in {} |-> 0]
  /\ bt = NewBacktester
  /\ fresh = NewBacktester
  /\ fresh2 = NewBacktester
  /\ rev = NewBacktester
  /\ calls = <<>>
  /\ equities = {}
  /\ day_signals = NoSignals
  /\ solo = NewBacktester
  /\ returned_fill = <<>>
  /\ cost = <<>>
  /\ backtester = <<>>
  /\ twin = <<>>
  /\ universe_call = <<>>
  /\ tickers_returned = <<>>
  /\ analyzed = <<>>
  /\ metrics = <<>>
  /\ final_signals = <<>>

\* _run_portfolio_backtest, lines 469-477: generate_signals, and one
\* 'signal' column per asset as signals_data.
GenerateSignals ==
  /\ pc = "strategy"
  /\ final_signals' = generate_signals(z_zones)
  /\ signals_data' = [d \in DOMAIN z_zones |->
                        [s \in TickerSet |->
                           IF s = "A" THEN final_signals'[d].asset1
                           ELSE final_signals'[d].asset2]]
  /\ pc' = "called"
  /\ UNCHANGED <<cfg, trial, price_data, full_timeline, target_weights,
                 current_prices, bt, fresh, fresh2, rev, calls, equities,
                 day_signals, solo, returned_fill, cost, backtester, twin,
                 universe_call, tickers_returned, analyzed, metrics, z_zones>>

NextPairs ==
  GenerateSignals \/ BuildTimeline \/ TimelineRunDay \/ TimelineFinish

SpecPairs == InitPairs /\ [][NextPairs]_vars

-----------------------------------------------------------------------------
(* Properties *)

Rows == DOMAIN bt.portfolio
LastRow == bt.portfolio[Len(bt.portfolio)]
\* The row the last date started from.
PrevRow ==
  IF Len(bt.portfolio) >= 2 THEN bt.portfolio[Len(bt.portfolio) - 1]
  ELSE InitialRow(cfg)
\* The fills a backtester logged with a timestamp.
FillsAt(b, t) ==
  {b.trade_log[i] : i \in {j \in DOMAIN b.trade_log :
                             b.trade_log[j].timestamp = t}}
AssessCalls == {i \in DOMAIN calls : calls[i].op = "assess"}
ExecuteCalls == {i \in DOMAIN calls : calls[i].op = "execute"}

\* C1: cash is non-negative in every row of the portfolio table.
C1_CashNeverNegative ==
  \A i \in Rows : bt.portfolio[i].cash >= 0

\* C2: the row of the date just processed has total = cash + the sum over the
\* symbols of position times as-of price, on fill days as on other days.
C2_TotalIsCashPlusHoldings ==
  bt.portfolio # <<>> =>
    LastRow.total =
      LastRow.cash
        + SumOver([t \in DOMAIN current_prices |->
                     LastRow.pos[t] * current_prices[t]],
                  DOMAIN current_prices)

\* Signed cash flow of the fills with timestamp <= t.
CashFlow(log, t) ==
  SumOver([i \in DOMAIN log |->
             IF log[i].timestamp > t THEN 0
             ELSE IF log[i].direction = "BUY" THEN -total_cost(log[i])
             ELSE total_cost(log[i])],
          DOMAIN log)
\* Signed quantity of a symbol's fills with timestamp <= t.
NetQuantity(log, t, sym) ==
  SumOver([i \in DOMAIN log |->
             IF log[i].timestamp > t \/ log[i].symbol # sym THEN 0
             ELSE IF log[i].direction = "BUY" THEN log[i].quantity
             ELSE -log[i].quantity],
          DOMAIN log)

\* C3: every row is reconstructible from the trade log: cash is the initial
\* capital minus the total_cost of the BUY fills plus the total_cost of the
\* SELL fills up to the row, and each position is the bought minus the sold
\* quantity up to the row.
C3_ReconstructibleFromLog ==
  \A i \in Rows :
    /\ bt.portfolio[i].cash = cfg.initial_capital + CashFlow(bt.trade_log, i)
    /\ \A t \in TickerSet :
         bt.portfolio[i].pos[t] = NetQuantity(bt.trade_log, i, t)

C3_Witness ==
  /\ Len(bt.portfolio) = 2
  /\ \E i, j \in DOMAIN bt.trade_log :
       /\ bt.trade_log[i].direction = "BUY" /\ bt.trade_log[i].timestamp = 1
       /\ bt.trade_log[j].direction = "SELL" /\ bt.trade_log[j].timestamp = 2

\* The drawdown of an assess_order call exceeds the ceiling, computed from
\* the high-water-mark after the call's update.
InDrawdown(call) ==
  /\ call.high_water_mark > 0
  /\ (call.high_water_mark - call.equity) * 100
       > cfg.max_portfolio_drawdown_pct * call.high_water_mark

\* C4: when the drawdown exceeds max_portfolio_drawdown_pct, a BUY order is
\* rejected and a SELL order is returned with its quantity unchanged.
C4_DrawdownGate ==
  \A i \in AssessCalls :
    InDrawdown(calls[i]) =>
      IF calls[i].order.direction = "BUY"
      THEN calls[i].result = <<>>
      ELSE calls[i].result = <<calls[i].order>>

C4_Witness ==
  \E i, j \in AssessCalls :
    /\ InDrawdown(calls[i]) /\ InDrawdown(calls[j])
    /\ calls[i].order.direction = "BUY" /\ calls[i].result = <<>>
    /\ calls[j].order.direction = "SELL" /\ calls[j].result = <<calls[j].order>>

\* The position-size rule on one BUY call: the approved notional is within
\* the cap; an order within the cap is approved unchanged; an order above it
\* is rejected when floor(cap / price) is 0 and otherwise returned with that
\* quantity, at least 1 and below the proposed quantity.
SizeRule(call) ==
  LET price == call.current_price
      cap100 == call.equity * cfg.max_trade_risk_pct
      floored == cap100 \div (100 * price)
  IN /\ call.result # <<>> =>
          call.result[1].quantity * price * 100 <= cap100
     /\ IF call.order.quantity * price * 100 <= cap100
        THEN call.result = <<call.order>>
        ELSE IF floored = 0 THEN call.result = <<>>
        ELSE /\ call.result = <<[call.order EXCEPT !.quantity = floored]>>
             /\ floored >= 1
             /\ floored < call.order.quantity

\* C5 as stated: the position-size rule decides every BUY order.
C5_SizeRuleEveryBuy ==
  \A i \in AssessCalls :
    calls[i].order.direction = "BUY" => SizeRule(calls[i])

\* C5: the approved notional of a BUY never exceeds equity times
\* max_trade_risk_pct, and the position-size rule decides every BUY order
\* that the drawdown gate does not reject.
C5_SizeRuleOutsideDrawdown ==
  \A i \in AssessCalls :
    calls[i].order.direction = "BUY" =>
      /\ calls[i].result # <<>> =>
           calls[i].result[1].quantity * calls[i].current_price * 100
             <= calls[i].equity * cfg.max_trade_risk_pct
      /\ ~InDrawdown(calls[i]) => SizeRule(calls[i])

C5_Witness ==
  \E i \in AssessCalls :
    /\ calls[i].order.direction = "BUY"
    /\ ~InDrawdown(calls[i])
    /\ calls[i].result # <<>>
    /\ calls[i].result[1].quantity < calls[i].order.quantity

MaxOf(S) == CHOOSE x \in S : \A y \in S : y <= x

\* C6: the high-water-mark is the maximum of 0 and every equity passed to
\* assess_order so far, whatever the call returned.
C6_HighWaterMarkIsMax ==
  bt.high_water_mark = MaxOf({0} \cup equities)

C6_Witness ==
  /\ \E e \in equities : e < bt.high_water_mark
  /\ \E i \in AssessCalls :
       /\ calls[i].equity < bt.high_water_mark
       /\ calls[i].result = <<>>
  /\ \E i \in AssessCalls : calls[i].order.direction = "SELL"

\* C7: with identical fill prices, the run of a trial on the optimizer's
\* backtester equals the run of the same inputs on a backtester constructed
\* for it: same portfolio table, same trade log.
C7_TrialsIndependent ==
  /\ bt.portfolio = fresh.portfolio
  /\ bt.trade_log = fresh.trade_log

\* C8: with zero slippage, two backtesters constructed for the same inputs
\* return the same portfolio table and the same trade log.
C8_Deterministic ==
  cfg.slippage_pct = 0 =>
    /\ fresh2.portfolio = bt.portfolio
    /\ fresh2.trade_log = bt.trade_log

C8_Witness ==
  /\ cfg.slippage_pct = 0
  /\ pc = "done"
  /\ Len(bt.portfolio) = 2
  /\ Len(bt.trade_log) >= 2
  /\ fresh2.trade_log = bt.trade_log

\* C9: every execute_order call directly follows an assess_order call that
\* returned that order, made with the symbol's as-of price in the snapshot;
\* the fills logged for the date are the results of the execute_order calls,
\* with the approved quantities; a symbol with no approved order keeps its
\* position, and a date with no approved order keeps the cash.
C9_RiskCheckPrecedesExecution ==
  bt.portfolio # <<>> =>
    /\ \A i \in ExecuteCalls :
         /\ i > 1
         /\ calls[i - 1].op = "assess"
         /\ calls[i - 1].result = <<calls[i].order>>
         /\ calls[i].result[1].quantity = calls[i - 1].result[1].quantity
    /\ \A i \in AssessCalls :
         /\ calls[i].order.symbol \in DOMAIN calls[i].snapshot_price
         /\ calls[i].snapshot_price[calls[i].order.symbol]
              = current_prices[calls[i].order.symbol]
         /\ calls[i].result # <<>> =>
              i < Len(calls) /\ calls[i + 1].op = "execute"
                             /\ calls[i + 1].order = calls[i].result[1]
    /\ FillsAt(bt, Len(bt.portfolio))
         = {calls[i].result[1] : i \in ExecuteCalls}
    /\ Cardinality(FillsAt(bt, Len(bt.portfolio))) = Cardinality(ExecuteCalls)
    /\ \A t \in TickerSet :
         (\A i \in AssessCalls :
            calls[i].order.symbol = t => calls[i].result = <<>>)
           => LastRow.pos[t] = PrevRow.pos[t]
    /\ (\A i \in AssessCalls : calls[i].result = <<>>)
         => LastRow.cash = PrevRow.cash

C9_Witness ==
  /\ Len(bt.portfolio) = 2
  /\ \E i, j \in AssessCalls :
       /\ calls[i].result = <<>>
       /\ calls[j].result # <<>>
       /\ calls[j].order.symbol \in DOMAIN PrevRow.price
       /\ calls[j].snapshot_price[calls[j].order.symbol]
            # PrevRow.price[calls[j].order.symbol]

\* The BUY fills of the last date cost more than the cash the date started
\* with, and fills of two assets were logged for the date.
CapitalTight ==
  /\ bt.portfolio # <<>>
  /\ Cardinality({f.symbol : f \in FillsAt(bt, Len(bt.portfolio))}) = 2
  /\ SumOver([f \in FillsAt(bt, Len(bt.portfolio)) |->
                IF f.direction = "BUY" THEN total_cost(f) ELSE 0],
             FillsAt(bt, Len(bt.portfolio))) > PrevRow.cash

\* C10: when capital is tight the processing order of the assets decides
\* which trades succeed: processed in the opposite order, the date's fills
\* differ.
C10_OrderDecidesFills ==
  CapitalTight =>
    FillsAt(rev, Len(rev.portfolio)) # FillsAt(bt, Len(bt.portfolio))

\* The fills of a date are the same in either processing order.
FillsIndependentOfOrder ==
  \A t \in Rows : FillsAt(rev, t) = FillsAt(bt, t)

\* The order proposed for a symbol on the last date (<<>> for none): the one
\* the risk manager was asked about.
ProposedOrder(sym) ==
  LET idx == {i \in AssessCalls : calls[i].order.symbol = sym}
  IN IF idx = {} THEN <<>> ELSE <<calls[CHOOSE i \in idx : TRUE].order>>
\* The row of the last date as the loop over the tickers found it: marked to
\* market, positions as carried forward.
RowAtSignals == [LastRow EXCEPT !.pos = PrevRow.pos]
\* The order a signal creates for a priced symbol on the last date.
OrderFor(signal, sym) ==
  MakeOrder(signal, RowAtSignals, sym, current_prices[sym], target_weights,
            Len(bt.portfolio))

\* C11: on a date the 'Portfolio' source has an entry for, the signal acted
\* on for every asset is the value of that entry, whatever the value (0
\* included), and the asset's own entry is ignored.
C11_PortfolioPrecedence ==
  (bt.portfolio # <<>> /\ "Portfolio" \in DOMAIN day_signals) =>
    \A sym \in TickerSet \cap DOMAIN current_prices :
      ProposedOrder(sym) = OrderFor(day_signals["Portfolio"], sym)

\* The index of the table run returns: the calendar dates of its rows.
TableIndex == SubSeq(full_timeline, 1, Len(bt.portfolio))
\* The calendar dates some price panel or some signal source carries.
InputDates ==
  {d \in DOMAIN price_data : DOMAIN price_data[d] # {}}
    \cup {d \in DOMAIN signals_data : DOMAIN signals_data[d] # {}}

\* C12: the index of the returned table is the sorted union of the dates of
\* every price panel and every signal source (sources without a price panel
\* included), one row per date, whatever trades executed; a run with no
\* date returns an empty table and an empty trade log.
C12_TimelineComplete ==
  pc = "done" =>
    /\ {TableIndex[i] : i \in DOMAIN TableIndex} = InputDates
    /\ \A i, j \in DOMAIN TableIndex : i < j => TableIndex[i] < TableIndex[j]
    /\ InputDates = {} => bt.portfolio = <<>> /\ bt.trade_log = <<>>

\* A returned table with a date only the source X carries, a calendar date
\* no input carries, and a trade.
C12_Witness ==
  /\ pc = "done"
  /\ bt.trade_log # <<>>
  /\ \E d \in InputDates :
       DOMAIN price_data[d] = {} /\ DOMAIN signals_data[d] = {"X"}
  /\ \E d \in Calendar : d \notin InputDates /\ d < CalendarDays

\* run returned on inputs with no date.
C12_WitnessEmpty == pc = "done" /\ InputDates = {} /\ bt.portfolio = <<>>

\* C13: in a run whose trade log is empty every row has total =
\* initial_capital, cash = initial_capital and every position 0, whatever
\* the prices; and in every run the first row's total is initial_capital.
C13_CapitalConserved ==
  /\ bt.trade_log = <<>> =>
       \A r \in Rows :
         /\ bt.portfolio[r].total = cfg.initial_capital
         /\ bt.portfolio[r].cash = cfg.initial_capital
         /\ \A t \in TickerSet : bt.portfolio[r].pos[t] = 0
  /\ bt.portfolio # <<>> => bt.portfolio[1].total = cfg.initial_capital

\* Two dates without a trade: the price of A moved, and an order was
\* proposed and rejected on the last date.
C13_Witness ==
  /\ Len(bt.portfolio) = 2
  /\ bt.trade_log = <<>>
  /\ "A" \in DOMAIN PrevRow.price /\ "A" \in DOMAIN LastRow.price
  /\ PrevRow.price["A"] # LastRow.price["A"]
  /\ \E i \in AssessCalls : calls[i].result = <<>>

\* C14: every fill in the trade log has an integer quantity of at least 1,
\* and every position of every row is an integer, after any sequence of
\* buy, sell and rebalance signals and any resizing by the risk manager.
C14_WholeShares ==
  /\ \A i \in DOMAIN bt.trade_log :
       bt.trade_log[i].quantity \in Nat /\ bt.trade_log[i].quantity >= 1
  /\ \A r \in Rows : \A t \in TickerSet : bt.portfolio[r].pos[t] \in Int

\* The trade log holds a BUY of the first date that the risk manager
\* resized (fewer shares than the target weight buys) and a later SELL.
C14_Witness ==
  /\ \E i \in DOMAIN bt.trade_log :
       LET f == bt.trade_log[i]
       IN /\ f.timestamp = 1 /\ f.direction = "BUY"
          /\ f.quantity < IntDiv(cfg.initial_capital
                                   * Get(target_weights, f.symbol, 0),
                                 100 * f.fill_price)
  /\ \E i \in DOMAIN bt.trade_log : bt.trade_log[i].direction = "SELL"

\* The value of the positions of a row at the as-of prices.
ValueAt(row, prices) ==
  SumOver([t \in DOMAIN prices |-> row.pos[t] * prices[t]], DOMAIN prices)

\* C15: on a timeline date no signal source carries, no order is created,
\* the risk manager is not consulted (its high-water-mark is unchanged), the
\* trade log is unchanged, and cash and every position equal the previous
\* row's; only holdings_value and total are recomputed from the as-of
\* prices.
C15_PureMarkToMarket ==
  [][(Len(bt'.portfolio) = Len(bt.portfolio) + 1 /\ DOMAIN day_signals' = {})
       => LET old == IF bt.portfolio = <<>> THEN InitialRow(cfg)
                     ELSE bt.portfolio[Len(bt.portfolio)]
              new == bt'.portfolio[Len(bt'.portfolio)]
          IN /\ calls' = <<>>
             /\ bt'.high_water_mark = bt.high_water_mark
             /\ bt'.trade_log = bt.trade_log
             /\ new.cash = old.cash
             /\ new.pos = old.pos
             /\ new.price = old.price
             /\ new.holdings_value = ValueAt(old, current_prices')
             /\ new.total = old.cash + new.holdings_value]_vars

\* A date without signals after a date with a BUY: the price moved, so the
\* total was recomputed.
C15_Witness ==
  /\ Len(bt.portfolio) = 2
  /\ DOMAIN day_signals = {}
  /\ bt.trade_log # <<>>
  /\ LastRow.pos # [t \in TickerSet |-> 0]
  /\ LastRow.total # PrevRow.total

\* The fills logged for a symbol on the last date, in log order.
DayFills(sym) ==
  SelectSeq(bt.trade_log,
            LAMBDA f : f.timestamp = Len(bt.portfolio) /\ f.symbol = sym)

\* C16: on a signal day, for an asset with a resolvable price whose
\* effective signal is -1: when it holds a positive position, exactly one
\* fill is logged for it, a SELL of the whole held quantity, and its
\* position in the day's row is 0, whatever the drawdown and the per-trade
\* risk cap; when it is flat no order is created.
C16_ExitCompletes ==
  bt.portfolio # <<>> =>
    \A sym \in TickerSet \cap DOMAIN current_prices :
      EffectiveSignal(day_signals, sym) = -1 =>
        IF PrevRow.pos[sym] > 0
        THEN /\ Len(DayFills(sym)) = 1
             /\ DayFills(sym)[1].direction = "SELL"
             /\ DayFills(sym)[1].quantity = PrevRow.pos[sym]
             /\ LastRow.pos[sym] = 0
        ELSE ProposedOrder(sym) = <<>> /\ DayFills(sym) = <<>>

\* An exit in drawdown whose notional is above the per-trade risk cap, and
\* on the same date a signal -1 for a flat asset.
C16_Witness ==
  /\ bt.portfolio # <<>>
  /\ \E i \in AssessCalls :
       /\ calls[i].order.direction = "SELL"
       /\ EffectiveSignal(day_signals, calls[i].order.symbol) = -1
       /\ InDrawdown(calls[i])
       /\ calls[i].order.quantity * calls[i].current_price * 100
            > calls[i].equity * cfg.max_trade_risk_pct
  /\ \E sym \in TickerSet \cap DOMAIN current_prices :
       EffectiveSignal(day_signals, sym) = -1 /\ PrevRow.pos[sym] = 0

\* floor(the day's total equity x the symbol's target weight / its price);
\* a symbol without a target weight has weight 0.
TargetQuantity(sym) ==
  (LastRow.total * (IF sym \in DOMAIN target_weights
                    THEN target_weights[sym] ELSE 0))
    \div (100 * current_prices[sym])

\* C17: on a signal day, for an asset with a resolvable price whose
\* effective signal is 1: when it is flat, the order proposed to the risk
\* manager is a BUY of floor(total x target weight / price) shares, and no
\* order is proposed when that quantity is 0; when it holds a position no
\* order is proposed.
C17_EntrySizing ==
  bt.portfolio # <<>> =>
    \A sym \in TickerSet \cap DOMAIN current_prices :
      EffectiveSignal(day_signals, sym) = 1 =>
        IF PrevRow.pos[sym] = 0 /\ TargetQuantity(sym) > 0
        THEN ProposedOrder(sym) =
               <<[timestamp |-> Len(bt.portfolio), symbol |-> sym,
                  order_type |-> "MKT", quantity |-> TargetQuantity(sym),
                  direction |-> "BUY"]>>
        ELSE ProposedOrder(sym) = <<>>

\* On the second date a flat asset enters, sized from a total that differs
\* from the cash, while the other asset has signal 1 and holds a position.
C17_Witness ==
  /\ Len(bt.portfolio) = 2
  /\ LastRow.total # PrevRow.cash
  /\ \E sym \in TickerSet \cap DOMAIN current_prices :
       /\ EffectiveSignal(day_signals, sym) = 1
       /\ PrevRow.pos[sym] = 0
       /\ ProposedOrder(sym) # <<>>
  /\ \E sym \in TickerSet \cap DOMAIN current_prices :
       EffectiveSignal(day_signals, sym) = 1 /\ PrevRow.pos[sym] > 0

\* On the first date an asset without a target weight gets signal 1.
C17_WitnessZero ==
  /\ Len(bt.portfolio) = 1
  /\ \E sym \in (TickerSet \cap DOMAIN current_prices) \ DOMAIN target_weights :
       EffectiveSignal(day_signals, sym) = 1

C18_WitnessBuy ==
  /\ bt.portfolio # <<>>
  /\ \E sym \in TickerSet \cap DOMAIN current_prices :
       /\ EffectiveSignal(day_signals, sym) = 2
       /\ PrevRow.pos[sym] > 0
       /\ ProposedOrder(sym) # <<>>
       /\ ProposedOrder(sym)[1].direction = "BUY"
  /\ \E sym \in (TickerSet \cap DOMAIN current_prices) \ DOMAIN target_weights :
       EffectiveSignal(day_signals, sym) = 2

\* C19: on a signal day an asset without a price at or before the date is
\* skipped: no order, no risk assessment, no fill, its position unchanged,
\* its value not in holdings_value; and the run goes on: while B has no
\* price, the trade log, the high-water-mark and the rows are those of the
\* same run on price_data without B's panel.
C19_MissingPriceSkipped ==
  bt.portfolio # <<>> =>
    \A sym \in TickerSet \ DOMAIN current_prices :
      /\ ProposedOrder(sym) = <<>>
      /\ \A i \in DOMAIN calls : calls[i].order.symbol # sym
      /\ DayFills(sym) = <<>>
      /\ LastRow.pos[sym] = PrevRow.pos[sym]
      /\ LastRow.holdings_value = ValueAt(PrevRow, current_prices)
      /\ sym = "B" =>
           /\ bt.trade_log = solo.trade_log
           /\ bt.high_water_mark = solo.high_water_mark
           /\ Len(solo.portfolio) = Len(bt.portfolio)
           /\ \A r \in Rows :
                /\ bt.portfolio[r].cash = solo.portfolio[r].cash
                /\ bt.portfolio[r].total = solo.portfolio[r].total
                /\ bt.portfolio[r].holdings_value
                     = solo.portfolio[r].holdings_value
                /\ bt.portfolio[r].pos["A"] = solo.portfolio[r].pos["A"]

\* A signal day on which B has a signal but no price yet, while A trades.
C19_Witness ==
  /\ bt.portfolio # <<>>
  /\ DOMAIN current_prices = {"A"}
  /\ EffectiveSignal(day_signals, "B") # 0
  /\ DayFills("A") # <<>>

\* C20: the total_cost of a fill is quantity x fill_price + commission for
\* a BUY and quantity x fill_price - commission for a SELL: the commission
\* never lowers the cost of a buy and never raises the proceeds of a sell
\* (quantity 10, price 50, commission 1: 501 for a BUY, 499 for a SELL).
C20_FillCost ==
  cost # <<>> =>
    LET f == returned_fill[1]
        gross == f.quantity * f.fill_price
    IN /\ f.direction = "BUY" =>
            cost[1] = gross + f.commission /\ cost[1] >= gross
       /\ f.direction = "SELL" =>
            cost[1] = gross - f.commission /\ cost[1] <= gross
       /\ (f.quantity = 10 /\ f.fill_price = 50 /\ f.commission = 1) =>
            cost[1] = IF f.direction = "BUY" THEN 501 ELSE 499

\* The total_cost of a SELL of 10 at 50 with commission 1 was read.
C20_Witness ==
  /\ cost = <<499>>
  /\ returned_fill = <<FillEvent(1, "A", "SELL", 10, 50, 1)>>

\* C21: execute_order returns a FillEvent for every order it is given (every
\* order the risk manager approved): timestamp, symbol, direction and
\* quantity are the order's, the commission is commission_per_trade
\* whatever the quantity and the price, and the fill price lies within
\* current_price x (1 -/+ slippage_pct).
C21_ExecuteOrderContract ==
  /\ \A i \in AssessCalls :
       calls[i].result # <<>> =>
         /\ i + 1 \in ExecuteCalls
         /\ calls[i + 1].order = calls[i].result[1]
  /\ \A i \in ExecuteCalls :
       /\ Len(calls[i].result) = 1
       /\ LET order == calls[i].order
              fill == calls[i].result[1]
              current_price == calls[i].current_price
          IN /\ fill.timestamp = order.timestamp
             /\ fill.symbol = order.symbol
             /\ fill.direction = order.direction
             /\ fill.quantity = order.quantity
             /\ fill.commission = cfg.commission_per_trade
             /\ fill.fill_price * 10000
                  >= current_price * (10000 - cfg.slippage_pct)
             /\ fill.fill_price * 10000
                  <= current_price * (10000 + cfg.slippage_pct)

\* With slippage configured, a SELL of more than one share filled below the
\* market price.
C21_Witness ==
  \E i \in ExecuteCalls :
    /\ cfg.slippage_pct > 0
    /\ calls[i].order.direction = "SELL"
    /\ calls[i].order.quantity > 1
    /\ calls[i].result[1].fill_price < calls[i].current_price

\* C22: one asset, 50 bars rising linearly from 100 to 150, signal 1 on the
\* first bar and -1 on the last, initial capital 10000: the trade log has
\* exactly two fills, a BUY on the first bar and a SELL on the last, the
\* final cash exceeds the initial capital and the position is 0 in the last
\* row.
C22_BuyFirstSellLast ==
  pc = "done" =>
    /\ Len(bt.portfolio) = ScenarioBars
    /\ Len(bt.trade_log) = 2
    /\ bt.trade_log[1].direction = "BUY" /\ bt.trade_log[1].timestamp = 1
    /\ bt.trade_log[2].direction = "SELL"
    /\ bt.trade_log[2].timestamp = ScenarioBars
    /\ LastRow.cash > cfg.initial_capital
    /\ LastRow.pos["A"] = 0

\* The run returned with the default handler's slippage against the trader
\* on both fills.
C22_Witness ==
  /\ pc = "done"
  /\ Len(bt.portfolio) = ScenarioBars
  /\ cfg = ScenarioDefaults
  /\ Len(bt.trade_log) = 2
  /\ bt.trade_log[1].fill_price > ScenarioClose(1)
  /\ bt.trade_log[2].fill_price < ScenarioClose(ScenarioBars)

\* C23: in run_backtest the position held at every bar is 0 or 1: it is 1
\* from a 1 signal on, 0 from a -1 signal on, unchanged on a 0 signal, and
\* never negative.
Ran(b) == b # <<>> /\ b[1].portfolio # <<>>
C23_LongOrFlat ==
  Ran(backtester) =>
    \A i \in DOMAIN backtester[1].data :
      LET self == backtester[1]
          before == IF i = 1 THEN 0 ELSE self.position[i - 1]
      IN  /\ self.position[i] \in {0, 1}
          /\ self.signals[i] = 1 => self.position[i] = 1
          /\ self.signals[i] = -1 => self.position[i] = 0
          /\ self.signals[i] = 0 => self.position[i] = before

\* C24: two runs whose prices agree up to bar t and whose signals agree on
\* all bars before t have the same portfolio value on every bar up to and
\* including t.
AgreeUpTo(t) ==
  /\ \A i \in 1..t : backtester[1].data[i] = twin[1].data[i]
  /\ \A i \in 1..(t - 1) : backtester[1].signals[i] = twin[1].signals[i]
C24_NoLookAhead ==
  (Ran(backtester) /\ Ran(twin)) =>
    \A t \in DOMAIN backtester[1].data :
      AgreeUpTo(t) =>
        \A i \in 1..t :
          SameValue(backtester[1].portfolio[i], twin[1].portfolio[i])
\* The two runs part at bar t (signals) and after it (prices); the value of
\* bar t, earned while invested, is the same, and that of the next differs.
C24_Witness ==
  /\ Ran(backtester) /\ Ran(twin)
  /\ \E t \in 2..(Len(backtester[1].data) - 1) :
       /\ AgreeUpTo(t)
       /\ backtester[1].signals[t] # twin[1].signals[t]
       /\ backtester[1].data[t + 1] # twin[1].data[t + 1]
       /\ backtester[1].position[t - 1] = 1
       /\ backtester[1].data[t] # backtester[1].data[t - 1]
       /\ SameValue(backtester[1].portfolio[t], twin[1].portfolio[t])
       /\ ~SameValue(backtester[1].portfolio[t + 1], twin[1].portfolio[t + 1])

\* C25: the value at the first bar is initial_capital in every run, and
\* when every signal is 0 the value is initial_capital at every bar.
IsCapital(self, i) ==
  /\ self.portfolio[i] # NaN
  /\ SameValue(self.portfolio[i], Frac(self.initial_capital, 1))
C25_CapitalConserved ==
  Ran(backtester) =>
    LET self == backtester[1]
    IN  /\ IsCapital(self, 1)
        /\ (\A i \in DOMAIN self.signals : self.signals[i] = 0) =>
              \A i \in DOMAIN self.data : IsCapital(self, i)

\* C26: get_tickers never raises; it returns [] for an unsupported source,
\* a RequestException, a non-success HTTP status and a missing table; on
\* success it returns the tickers of the rows it reads, in their order.
C26_EmptyOnFailure ==
  tickers_returned # <<>> =>
    LET call == universe_call[1]
        out == tickers_returned[1]
        source == Lower(call.source)
        rows == call.response.rows
        read == Eligible(source, rows)
    IN  /\ ~out.raised
        /\ (call.source = "unsupported_source"
            \/ call.response.failure # "none") => out.value = <<>>
        /\ (source \in SourceMap /\ call.response.failure = "none") =>
             /\ Len(out.value) = Cardinality(read)
             /\ \A k \in read :
                  out.value[Cardinality({e \in read : e <= k})] =
                    Clean(source, rows[k])
\* A failed status code on a supported source; and a success with two
\* tickers behind a header row.
C26_Witness ==
  /\ tickers_returned # <<>>
  /\ universe_call[1].source = "sp500"
  /\ universe_call[1].response.failure = "HTTPError"
  /\ universe_call[1].response.rows # <<>>
  /\ tickers_returned[1] = Returned(<<>>)
C26_WitnessSuccess ==
  /\ tickers_returned # <<>>
  /\ universe_call[1].source = "sp500"
  /\ universe_call[1].response = [failure |-> "none",
                                  rows |-> <<"", "AAPL", " MSFT ">>]
  /\ tickers_returned[1] = Returned(<<"AAPL", "MSFT">>)

\* C27: get_performance_metrics returns {} when no run has been made or the
\* last run produced an empty table, and otherwise a 'Total Return' of
\* final total / initial_capital - 1 for the backtester's initial_capital.
C27_MetricsUseOwnCapital ==
  metrics # <<>> =>
    LET call == metrics[1]
        no_run_made == ~call.after_run /\ call.self.results = <<>>
        last_run_empty == call.after_run /\ full_timeline = <<>>
    IN  IF no_run_made \/ last_run_empty THEN call.returned = <<>>
        ELSE LET total == call.self.results[1]
                 final == total[Len(total)]
             IN  /\ call.returned # <<>>
                 /\ call.returned[1].Total_Return =
                      Reduced(final - call.self.initial_capital,
                              call.self.initial_capital)

\* C28: every value generate_signals emits for either asset is -1, 0 or 1,
\* and on no date of the run that is fed these signals does an asset's
\* signal take the rebalance branch (code 2).
C28_PairSignalCodes ==
  /\ \A i \in DOMAIN final_signals :
       /\ final_signals[i].asset1 \in {-1, 0, 1}
       /\ final_signals[i].asset2 \in {-1, 0, 1}
  /\ \A ticker \in TickerSet : EffectiveSignal(day_signals, ticker) # 2

\* C29: with non-negative target weights and a non-negative total equity on
\* every date, every position of every row is >= 0, and every SELL fill
\* sells at most the quantity held before it.
HeldBefore(f) ==
  IF f.timestamp = 1 THEN 0 ELSE bt.portfolio[f.timestamp - 1].pos[f.symbol]
C29_NoShortPositions ==
  ((\A t \in DOMAIN target_weights : target_weights[t] >= 0)
      /\ (\A r \in Rows : bt.portfolio[r].total >= 0)) =>
    /\ \A r \in Rows : \A t \in TickerSet : bt.portfolio[r].pos[t] >= 0
    /\ \A i \in DOMAIN bt.trade_log :
         bt.trade_log[i].direction = "SELL" =>
           bt.trade_log[i].quantity <= HeldBefore(bt.trade_log[i])
\* A rebalance sold a part of a position and left the rest; and an exit
\* sold a whole position.
C29_Witness ==
  \E i \in DOMAIN bt.trade_log :
    LET f == bt.trade_log[i]
    IN  /\ f.direction = "SELL"
        /\ f.timestamp = Len(bt.portfolio)
        /\ EffectiveSignal(day_signals, f.symbol) = 2
        /\ 0 < f.quantity /\ f.quantity < HeldBefore(f)
        /\ LastRow.pos[f.symbol] = HeldBefore(f) - f.quantity
C29_WitnessExit ==
  \E i \in DOMAIN bt.trade_log :
    LET f == bt.trade_log[i]
    IN  /\ f.direction = "SELL"
        /\ f.timestamp = Len(bt.portfolio)
        /\ EffectiveSignal(day_signals, f.symbol) = -1
        /\ f.quantity = HeldBefore(f)
        /\ LastRow.pos[f.symbol] = 0

\* C30: the trade log is ordered by timestamp and, within a timestamp, by
\* the order of the keys of price_data, with at most one fill per symbol
\* and timestamp; a symbol that has signals but no price panel has no fill.
KeyOrder(sym) == CHOOSE k \in DOMAIN Tickers : Tickers[k] = sym
C30_OneFillPerAssetAndDate ==
  /\ \A i \in DOMAIN bt.trade_log : bt.trade_log[i].symbol \in TickerSet
  /\ \A i, j \in DOMAIN bt.trade_log :
       i < j =>
         \/ bt.trade_log[i].timestamp < bt.trade_log[j].timestamp
         \/ /\ bt.trade_log[i].timestamp = bt.trade_log[j].timestamp
            /\ KeyOrder(bt.trade_log[i].symbol)
                 < KeyOrder(bt.trade_log[j].symbol)
\* Both assets were filled on one date, A before B, and a date carrying
\* only a signal of the source X has been processed without a fill.
C30_Witness ==
  /\ \E i \in DOMAIN bt.trade_log :
       /\ i + 1 \in DOMAIN bt.trade_log
       /\ bt.trade_log[i].timestamp = bt.trade_log[i + 1].timestamp
       /\ bt.trade_log[i].symbol = "A"
       /\ bt.trade_log[i + 1].symbol = "B"
  /\ \E r \in Rows :
       /\ DOMAIN signals_data[full_timeline[r]] = {"X"}
       /\ DOMAIN price_data[full_timeline[r]] = TickerSet
       /\ \A i \in DOMAIN bt.trade_log : bt.trade_log[i].timestamp # r

====
